---- MODULE Spec2Model ----
(***************************************************************************)
(* Chronologicon Engine: the event store (historical_events with its       *)
(* constraints), the CRUD handlers, and the asynchronous file ingestion    *)
(* pipeline (FileIngestionService with the IngestionJob record).           *)
(***************************************************************************)
EXTENDS Integers, Sequences, FiniteSets, TLC

(* ------------------------------ bounds --------------------------------- *)
\* number of distinct event ids
NumIds == 3
\* timestamps are 0..MaxTime
MaxTime == 2
\* longest source file, in lines
MaxLines == 3
\* number of cancelJob calls made by operators
MaxCancels == 1
\* number of distinct event ids the lines of a source file use
NumFileIds == 2
\* number of times the store or the source fails during a job
MaxFaults == 1

Ids == 1..NumIds
FileIds == 1..NumFileIds
Times == 0..MaxTime
\* SQL NULL / the NULL token of the parent field
NULL == 0

Range(s) == {s[i] : i \in DOMAIN s}

(* ----------------------- historical_events table ----------------------- *)
\* a row of historical_events: [id, parent, start, end]
Event(i, p, s, e) == [id |-> i, parent |-> p, start |-> s, end |-> e]

RowIds(tbl) == {r.id : r \in tbl}
RowOf(tbl, i) == CHOOSE r \in tbl : r.id = i

\* CHECK (end_date > start_date)
chk_date_order_off(row) == TRUE
chk_date_order(row) == row.end > row.start

\* parent_event_id UUID REFERENCES historical_events(event_id)
fk_parent_off(tbl, row) == TRUE
fk_parent(tbl, row) == row.parent = NULL \/ row.parent \in RowIds(tbl)

\* event_id UUID PRIMARY KEY, for the rows of one INSERT statement
pk_unique(tbl, rows) ==
    /\ \A i \in DOMAIN rows : rows[i].id \notin RowIds(tbl)
    /\ \A i, j \in DOMAIN rows : i # j => rows[i].id # rows[j].id

\* one INSERT statement (single row or multi-row VALUES list): all rows or
\* none; the foreign key is checked at the end of the statement
InsertOk(tbl, rows) ==
    /\ pk_unique(tbl, rows)
    /\ \A i \in DOMAIN rows : chk_date_order(rows[i])
    /\ \A i \in DOMAIN rows : fk_parent(tbl \cup Range(rows), rows[i])
InsertRows_none(tbl, rows) == tbl
InsertRows(tbl, rows) == tbl \cup Range(rows)

(* --------------------------- ingestion_jobs ---------------------------- *)
JobFields == {"status", "total_lines", "processed_lines", "error_lines", "errors"}
JOB_STATUS == {"PENDING", "PROCESSING", "COMPLETED", "FAILED", "CANCELLED"}

\* no row / no instance yet
NoRow == [status |-> "NONE", total_lines |-> 0, processed_lines |-> 0,
          error_lines |-> 0, errors |-> <<>>]

\* CHECK (status IN ('PENDING', 'PROCESSING', 'COMPLETED', 'FAILED'))
chk_job_status_all(s) == s \in JOB_STATUS
chk_job_status_nocomplete(s) == s \in {"PENDING", "PROCESSING", "FAILED"}
chk_job_status(s) == s \in {"PENDING", "PROCESSING", "COMPLETED", "FAILED"}

\* an UPDATE ... SET {FIELDS}: the fields named and their values
Upd(fs, vals) == [fields |-> fs, vals |-> vals]
ApplyUpd(row, u) ==
    [f \in JobFields |-> IF f \in u.fields THEN u.vals[f] ELSE row[f]]

\* a query on its way: sent, then applied by the store (row = RETURNING *)
\* or failed, then answered
NoQuery == [st |-> "none", upd |-> Upd({}, NoRow), row |-> NoRow]
Send(u) == [st |-> "sent", upd |-> u, row |-> NoRow]

\* IngestionJob.addError, the synchronous part: push and increment
AddErr(j, msg) ==
    [j EXCEPT !.errors = Append(@, msg), !.error_lines = @ + 1]
\* ... and the update it sends
ErrUpd(j) == Upd({"errors", "error_lines"}, j)
StatusUpd(s) == Upd({"status"}, [NoRow EXCEPT !.status = s])
ProcessedUpd(n) == Upd({"processed_lines"}, [NoRow EXCEPT !.processed_lines = n])
TotalUpd(n) == Upd({"total_lines"}, [NoRow EXCEPT !.total_lines = n])

(* ------------------------------ constants ------------------------------ *)
VALIDATION == [MAX_EVENT_NAME_LENGTH |-> 255, MAX_DESCRIPTION_LENGTH |-> 2000,
               MIN_BATCH_SIZE |-> 10, MAX_BATCH_SIZE |-> 1000,
               DEFAULT_BATCH_SIZE |-> 100]
FILE_PROCESSING == [EXPECTED_FIELDS_COUNT |-> 6, MAX_SAMPLE_LINES |-> 10,
                    CHUNK_SIZE |-> 1024 * 1024, MAX_FILE_SIZE |-> 100 * 1024 * 1024]

\* obj.key in JavaScript: <<value>>, or <<>> for undefined
Prop(obj, key) == IF key \in DOMAIN obj THEN <<obj[key]>> ELSE <<>>

\* const batchSize = FILE_PROCESSING.DEFAULT_BATCH_SIZE
batchSize == Prop(FILE_PROCESSING, "DEFAULT_BATCH_SIZE")
\* batch.length >= batchSize (a comparison with undefined is false)
BatchFull(len) == batchSize # <<>> /\ len >= batchSize[1]

(* ------------------------------ EventFactory --------------------------- *)
\* a line of the source file: the number of pipe-separated fields and the
\* id, parent, start and end fields
Line(n, i, p, s, e) == [nf |-> n, id |-> i, parent |-> p, start |-> s, end |-> e]

\* EventFactory.createFromFileLine: parseFileLine, then validateAndNormalize
LineOk(l) == l.nf = 6 /\ ~(l.end <= l.start)
LineEvent_(l) == Event(l.id, l.parent, l.start, l.end)

\* the lines a source file can hold
LineVals ==
    {Line(n, i, p, s, 1) : n \in {5, 6}, i \in FileIds, p \in {NULL} \cup FileIds, s \in {0, 1}}

(* ------------------------------- state --------------------------------- *)
VARIABLES
    store,       \* historical_events: a set of rows
    dbJob,       \* the ingestion_jobs row of the job (NoRow: none)
    storeUp,     \* the store is reachable
    sourceOk,    \* the source file is readable
    nLines,      \* number of lines of the source file
    pc,          \* position of startIngestion / processFile
    job,         \* the IngestionJob instance held by processFile and activeJobs
    active,      \* activeJobs has the job id
    mq,          \* the query processFile is awaiting
    lineQ,       \* per line number: the addError update of that line's handler
    lineNumber,  \* processLines: lineNumber
    batch,       \* processLines: batch
    idx,         \* processBatch: position of the fallback loop in the batch
    ctx,         \* who called processBatch: the "line" or the "close" handler
    paused,      \* rl.pause() is in effect
    cq,          \* the update cancelJob is awaiting
    cancelRes,   \* outcome of the last cancelJob call
    cancels,     \* cancelJob calls made
    cancelSaw,   \* history: persisted status when cancelJob found the job active
    faults,      \* number of failures of the store or the source so far
    faulted,     \* history: "none", or when the store or source failed
    badLines,    \* history: line numbers createFromFileLine rejected
    persisted,   \* history: ids of the events this job inserted
    flush,       \* history: what the bulk commit met
    last,        \* history: the last request to the event store and its outcome
    out          \* the last query on the event store: its arguments and its answer

pipeVars == <<pc, job, mq, lineQ, batch, paused, idx>>
vars == <<store, dbJob, storeUp, sourceOk, nLines, pc, job, active, mq, lineQ,
          lineNumber, batch, idx, ctx, paused, cq, cancelRes, cancels, cancelSaw,
          faults, faulted, badLines, persisted, flush, last, out>>

NoFlush == [bulk |-> "none", oneDup |-> FALSE, dup |-> 0]
\* no query asked yet (op: the query, arg: its arguments, st: how it ended,
\* res: what it returned)
NoOut == [op |-> "none", arg |-> 0, st |-> "none", res |-> 0]
NoLast == [op |-> "none", id |-> 0, res |-> "none", viol |-> "no", depth |-> 0,
           par |-> "none", dup |-> FALSE]

\* the stores a job can start from
InitStores == {{}, {Event(1, NULL, 0, 1)}}

Init ==
    /\ store \in InitStores
    /\ dbJob = NoRow
    /\ storeUp = TRUE
    /\ sourceOk \in BOOLEAN
    /\ nLines \in 0..MaxLines
    /\ pc = "idle"
    /\ job = NoRow
    /\ active = FALSE
    /\ mq = NoQuery
    /\ lineQ = [n \in 1..MaxLines |-> NoQuery]
    /\ lineNumber = 0
    /\ batch = <<>>
    /\ idx = 0
    /\ ctx = "close"
    /\ paused = FALSE
    /\ cq = NoQuery
    /\ cancelRes = "none"
    /\ cancels = 0
    /\ cancelSaw = "NONE"
    /\ faults = 0
    /\ faulted = "none"
    /\ badLines = {}
    /\ persisted = {}
    /\ flush = NoFlush
    /\ last = NoLast
    /\ out = NoOut

(* --------------------------- the store's side -------------------------- *)
\* UPDATE ingestion_jobs SET ... RETURNING *: applied, or failed when the
\* store is unreachable or the new row violates chk_job_status
JobUpdateOk(u) == storeUp /\ chk_job_status(ApplyUpd(dbJob, u).status)
Applied(q) == [q EXCEPT !.st = "applied", !.row = ApplyUpd(dbJob, q.upd)]
Failed(q) == [q EXCEPT !.st = "failed"]

\* the store executes the update processFile is awaiting
DbApplyMain ==
    /\ mq.st = "sent"
    /\ IF JobUpdateOk(mq.upd)
       THEN dbJob' = ApplyUpd(dbJob, mq.upd) /\ mq' = Applied(mq)
       ELSE dbJob' = dbJob /\ mq' = Failed(mq)
    /\ UNCHANGED <<store, storeUp, sourceOk, nLines, pc, job, active, lineQ,
                   lineNumber, batch, idx, ctx, paused, cq, cancelRes, cancels,
                   cancelSaw, faults, faulted, badLines, persisted, flush, last, out>>

\* the store executes the addError update of the handler of line n
DbApplyLine(n) ==
    /\ lineQ[n].st = "sent"
    /\ IF JobUpdateOk(lineQ[n].upd)
       THEN /\ dbJob' = ApplyUpd(dbJob, lineQ[n].upd)
            /\ lineQ' = [lineQ EXCEPT ![n] = Applied(@)]
       ELSE /\ dbJob' = dbJob
            /\ lineQ' = [lineQ EXCEPT ![n] = Failed(@)]
    /\ UNCHANGED <<store, storeUp, sourceOk, nLines, pc, job, active, mq,
                   lineNumber, batch, idx, ctx, paused, cq, cancelRes, cancels,
                   cancelSaw, faults, faulted, badLines, persisted, flush, last, out>>

(* -------------------- FileIngestionService: the job -------------------- *)
Go(p, j, q, lq, b, pa, i) ==
    /\ pc' = p /\ job' = j /\ mq' = q /\ lineQ' = lq
    /\ batch' = b /\ paused' = pa /\ idx' = i

FailMsg == <<"Fail", 0>>
LineMsg(n) == <<"Line", n>>
EventMsg(i) == <<"Event", i>>

\* processFile's catch: job.fail(msg) starts with addError(msg)
Fail(j) ==
    Go("failAddError", AddErr(j, FailMsg), Send(ErrUpd(AddErr(j, FailMsg))),
       lineQ, batch, paused, idx)

\* processLines resolved: job.complete()
Complete(j) ==
    Go("complete", j, Send(StatusUpd("COMPLETED")), lineQ, batch, paused, idx)

\* processBatch returned to its caller: the line handler resets the batch and
\* resumes, the close handler resolves processLines
ProcessBatchReturn(j) ==
    IF ctx = "line"
    THEN Go("reading", j, NoQuery, lineQ, <<>>, FALSE, 0)
    ELSE Complete(j)

\* processBatch threw: the line handler's catch records the line as an error
\* (batch and pause are left as they are), the close handler rejects
ProcessBatchThrow(j) ==
    IF ctx = "line"
    THEN Go("reading", AddErr(j, LineMsg(lineNumber)), NoQuery,
            [lineQ EXCEPT ![lineNumber] = Send(ErrUpd(AddErr(j, LineMsg(lineNumber))))],
            batch, paused, 0)
    ELSE Fail(j)

\* the fallback loop moves on from record i of the batch
FbNext(j, i) ==
    IF i < Len(batch)
    THEN Go("fbSave", j, NoQuery, lineQ, batch, paused, i + 1)
    ELSE ProcessBatchReturn(j)

\* fallback: addError for the record at idx
FbAddError(j) ==
    Go("fbAddError", AddErr(j, EventMsg(batch[idx].id)),
       Send(ErrUpd(AddErr(j, EventMsg(batch[idx].id)))), lineQ, batch, paused, idx)

Answered(q) == q.st \in {"applied", "failed"}

\* await fs.access(filePath) resolves
Accessible_always == TRUE
Accessible == sourceOk

\* startIngestion: fs.access, job.save(), processFile started
Submit ==
    /\ pc = "idle"
    /\ IF Accessible /\ storeUp
       THEN dbJob' = [NoRow EXCEPT !.status = "PENDING"] /\ pc' = "findById"
       ELSE dbJob' = dbJob /\ pc' = "rejected"
    /\ UNCHANGED <<store, storeUp, sourceOk, nLines, job, active, mq, lineQ,
                   lineNumber, batch, idx, ctx, paused, cq, cancelRes, cancels,
                   cancelSaw, faults, faulted, badLines, persisted, flush, last, out>>

\* processFile: findById answered; the job is registered and job.start() sent
FindByIdReturns ==
    /\ pc = "findById"
    /\ IF storeUp /\ dbJob.status # "NONE"
       THEN /\ active' = TRUE
            /\ Go("start", dbJob, Send(StatusUpd("PROCESSING")), lineQ, batch, paused, idx)
       ELSE /\ active' = active
            /\ Go("done", job, mq, lineQ, batch, paused, idx)
    /\ UNCHANGED <<store, dbJob, storeUp, sourceOk, nLines, lineNumber, ctx, cq,
                   cancelRes, cancels, cancelSaw, faults, faulted, badLines, persisted,
                   flush, last, out>>

\* job.start() answered; countLines begins
StartReturns ==
    /\ pc = "start" /\ Answered(mq)
    /\ IF mq.st = "applied"
       THEN Go("countLines", mq.row, NoQuery, lineQ, batch, paused, idx)
       ELSE Fail(job)
    /\ UNCHANGED <<store, dbJob, storeUp, sourceOk, nLines, active, lineNumber,
                   ctx, cq, cancelRes, cancels, cancelSaw, faults, faulted, badLines,
                   persisted, flush, last, out>>

\* countLines resolved; updateProgress({total_lines}) sent
CountLinesDone ==
    /\ pc = "countLines" /\ sourceOk
    /\ Go("updateTotal", job, Send(TotalUpd(nLines)), lineQ, batch, paused, idx)
    /\ UNCHANGED <<store, dbJob, storeUp, sourceOk, nLines, active, lineNumber,
                   ctx, cq, cancelRes, cancels, cancelSaw, faults, faulted, badLines,
                   persisted, flush, last, out>>

\* rl 'error' while counting or reading: the promise rejects
SourceError ==
    /\ pc \in {"countLines", "reading"} /\ ~sourceOk
    /\ Fail(job)
    /\ UNCHANGED <<store, dbJob, storeUp, sourceOk, nLines, active, lineNumber,
                   ctx, cq, cancelRes, cancels, cancelSaw, faults, faulted, badLines,
                   persisted, flush, last, out>>

\* updateProgress({total_lines}) answered; processLines opens the stream
TotalReturns ==
    /\ pc = "updateTotal" /\ Answered(mq)
    /\ IF mq.st = "applied"
       THEN Go("reading", mq.row, NoQuery, lineQ, <<>>, FALSE, 0)
       ELSE Fail(job)
    /\ UNCHANGED <<store, dbJob, storeUp, sourceOk, nLines, active, lineNumber,
                   ctx, cq, cancelRes, cancels, cancelSaw, faults, faulted, badLines,
                   persisted, flush, last, out>>

\* rl.on('line') for the line l: the handler up to its first await
LineRead(l) ==
    /\ pc = "reading" /\ ~paused /\ sourceOk /\ lineNumber < nLines
    /\   LET n == lineNumber + 1
             b == Append(batch, LineEvent_(l))
             j == AddErr(job, LineMsg(n))
         IN  /\ lineNumber' = n
             /\ IF LineOk(l)
                THEN /\ IF BatchFull(Len(b))
                        THEN Go("batchInsert", job, NoQuery, lineQ, b, TRUE, 0)
                             /\ ctx' = "line"
                        ELSE Go("reading", job, NoQuery, lineQ, b, FALSE, 0)
                             /\ ctx' = ctx
                     /\ badLines' = badLines
                ELSE /\ Go("reading", j, NoQuery,
                           [lineQ EXCEPT ![n] = Send(ErrUpd(j))], batch, paused, idx)
                     /\ ctx' = ctx
                     /\ badLines' = badLines \cup {n}
    /\ UNCHANGED <<store, dbJob, storeUp, sourceOk, nLines, active, cq, cancelRes,
                   cancels, cancelSaw, faults, faulted, persisted, flush, last, out>>

\* rl.on('line'): any line a source file can hold
LineEvent == \E l \in LineVals : LineRead(l)

\* a close handler that resolves without flushing the batch
CloseEvent_drop ==
    /\ pc = "reading" /\ ~paused /\ sourceOk /\ lineNumber = nLines
    /\ Complete(job) /\ ctx' = "close"
    /\ UNCHANGED <<store, dbJob, storeUp, sourceOk, nLines, active, lineNumber,
                   cq, cancelRes, cancels, cancelSaw, faults, faulted, badLines,
                   persisted, flush, last, out>>

\* rl.on('close'): flush the remaining batch, or resolve
CloseEvent ==
    /\ pc = "reading" /\ ~paused /\ sourceOk /\ lineNumber = nLines
    /\ IF Len(batch) > 0
       THEN Go("batchInsert", job, NoQuery, lineQ, batch, paused, 0) /\ ctx' = "close"
       ELSE Complete(job) /\ ctx' = "close"
    /\ UNCHANGED <<store, dbJob, storeUp, sourceOk, nLines, active, lineNumber,
                   cq, cancelRes, cancels, cancelSaw, faults, faulted, badLines,
                   persisted, flush, last, out>>

\* history: the records of a batch that collide on the primary key, with a
\* stored row or with an earlier record of the batch
DupIdx(tbl, b) ==
    {i \in DOMAIN b : b[i].id \in RowIds(tbl) \/ \E k \in 1..(i - 1) : b[k].id = b[i].id}
Without(b, i) == [k \in 1..(Len(b) - 1) |-> IF k < i THEN b[k] ELSE b[k + 1]]
\* history: the bulk commit fails because of exactly one such record
OneDup(tbl, b) ==
    /\ Cardinality(DupIdx(tbl, b)) = 1
    /\ \A i \in DupIdx(tbl, b) : InsertOk(tbl, Without(b, i))

\* processBatch: HistoricalEvent.batchInsert(events) answered
BatchInsertReturns ==
    /\ pc = "batchInsert"
    /\ IF storeUp /\ InsertOk(store, batch)
       THEN /\ store' = InsertRows(store, batch)
            /\ persisted' = persisted \cup {batch[i].id : i \in DOMAIN batch}
            /\ flush' = [bulk |-> "ok", oneDup |-> FALSE, dup |-> 0]
            /\ Go("pbUpdate", job, Send(ProcessedUpd(job.processed_lines + Len(batch))),
                  lineQ, batch, paused, idx)
       ELSE /\ store' = store
            /\ persisted' = persisted
            /\ flush' = [bulk |-> "failed",
                         oneDup |-> storeUp /\ OneDup(store, batch),
                         dup |-> IF storeUp /\ OneDup(store, batch)
                                 THEN CHOOSE i \in DupIdx(store, batch) : TRUE ELSE 0]
            /\ Go("fbSave", job, NoQuery, lineQ, batch, paused, 1)
    /\ UNCHANGED <<dbJob, storeUp, sourceOk, nLines, active, lineNumber, ctx, cq,
                   cancelRes, cancels, cancelSaw, faults, faulted, badLines, last, out>>

\* processBatch: updateProgress({processed_lines}) after the bulk commit answered
PbUpdateReturns ==
    /\ pc = "pbUpdate" /\ Answered(mq)
    /\ IF mq.st = "applied"
       THEN ProcessBatchReturn(mq.row)
       ELSE Go("fbSave", job, NoQuery, lineQ, batch, paused, 1)
    /\ UNCHANGED <<store, dbJob, storeUp, sourceOk, nLines, active, lineNumber,
                   ctx, cq, cancelRes, cancels, cancelSaw, faults, faulted, badLines,
                   persisted, flush, last, out>>

\* fallback loop: event.save() answered
SaveReturns ==
    /\ pc = "fbSave"
    /\ IF storeUp /\ InsertOk(store, <<batch[idx]>>)
       THEN /\ store' = InsertRows(store, <<batch[idx]>>)
            /\ persisted' = persisted \cup {batch[idx].id}
            /\ Go("fbUpdate", job, Send(ProcessedUpd(job.processed_lines + 1)),
                  lineQ, batch, paused, idx)
       ELSE /\ store' = store
            /\ persisted' = persisted
            /\ FbAddError(job)
    /\ UNCHANGED <<dbJob, storeUp, sourceOk, nLines, active, lineNumber, ctx, cq,
                   cancelRes, cancels, cancelSaw, faults, faulted, badLines, flush, last, out>>

\* fallback loop: updateProgress({processed_lines}) answered
FbUpdateReturns ==
    /\ pc = "fbUpdate" /\ Answered(mq)
    /\ IF mq.st = "applied"
       THEN FbNext(mq.row, idx)
       ELSE FbAddError(job)
    /\ UNCHANGED <<store, dbJob, storeUp, sourceOk, nLines, active, lineNumber,
                   ctx, cq, cancelRes, cancels, cancelSaw, faults, faulted, badLines,
                   persisted, flush, last, out>>

\* fallback loop: addError answered
FbAddErrorReturns ==
    /\ pc = "fbAddError" /\ Answered(mq)
    /\ IF mq.st = "applied"
       THEN FbNext(mq.row, idx)
       ELSE ProcessBatchThrow(job)
    /\ UNCHANGED <<store, dbJob, storeUp, sourceOk, nLines, active, lineNumber,
                   ctx, cq, cancelRes, cancels, cancelSaw, faults, faulted, badLines,
                   persisted, flush, last, out>>

\* job.complete() answered; finally: activeJobs.delete
CompleteReturns ==
    /\ pc = "complete" /\ Answered(mq)
    /\ IF mq.st = "applied"
       THEN Go("done", mq.row, NoQuery, lineQ, batch, paused, idx) /\ active' = FALSE
       ELSE Fail(job) /\ active' = active
    /\ UNCHANGED <<store, dbJob, storeUp, sourceOk, nLines, lineNumber, ctx, cq,
                   cancelRes, cancels, cancelSaw, faults, faulted, badLines, persisted,
                   flush, last, out>>

\* job.fail(): addError answered; the FAILED update is sent, or fail() throws
FailAddErrorReturns ==
    /\ pc = "failAddError" /\ Answered(mq)
    /\ IF mq.st = "applied"
       THEN Go("failUpdate", mq.row, Send(StatusUpd("FAILED")), lineQ, batch, paused, idx)
            /\ active' = active
       ELSE Go("done", job, NoQuery, lineQ, batch, paused, idx) /\ active' = FALSE
    /\ UNCHANGED <<store, dbJob, storeUp, sourceOk, nLines, lineNumber, ctx, cq,
                   cancelRes, cancels, cancelSaw, faults, faulted, badLines, persisted,
                   flush, last, out>>

\* job.fail(): the FAILED update answered; finally: activeJobs.delete
FailUpdateReturns ==
    /\ pc = "failUpdate" /\ Answered(mq)
    /\ Go("done", IF mq.st = "applied" THEN mq.row ELSE job, NoQuery, lineQ, batch,
          paused, idx)
    /\ active' = FALSE
    /\ UNCHANGED <<store, dbJob, storeUp, sourceOk, nLines, lineNumber, ctx, cq,
                   cancelRes, cancels, cancelSaw, faults, faulted, badLines, persisted,
                   flush, last, out>>

\* the addError of the handler of line n answered: Object.assign(this, row), or
\* the handler's promise rejects with nobody awaiting it (the process ends or
\* only warns, as the runtime is configured). Once processFile has ended
\* nothing reads the instance any more, and it is left as it is.
LineAddErrorReturns(n) ==
    /\ pc # "crashed" /\ Answered(lineQ[n])
    /\ IF lineQ[n].st = "applied"
       THEN Go(pc, IF pc = "done" THEN job ELSE lineQ[n].row, mq,
               [lineQ EXCEPT ![n] = NoQuery], batch, paused, idx)
       ELSE \E crash \in BOOLEAN :
              Go(IF crash THEN "crashed" ELSE pc, job, mq,
                 [lineQ EXCEPT ![n] = NoQuery], batch, paused, idx)
    /\ UNCHANGED <<store, dbJob, storeUp, sourceOk, nLines, active, lineNumber,
                   ctx, cq, cancelRes, cancels, cancelSaw, faults, faulted, badLines,
                   persisted, flush, last, out>>

(* ------------------------------ cancelJob ------------------------------ *)
\* cancelJob(jobId) up to its await
CancelJob ==
    /\ pc \notin {"idle", "rejected", "crashed"} /\ cancels < MaxCancels
    /\ cq.st = "none"
    /\ cancels' = cancels + 1
    /\ IF active
       THEN /\ cq' = Send(StatusUpd("CANCELLED"))
            /\ cancelRes' = "pending"
            /\ cancelSaw' = dbJob.status
       ELSE /\ cq' = cq
            /\ cancelRes' = "false"
            /\ cancelSaw' = cancelSaw
    /\ UNCHANGED <<store, dbJob, storeUp, sourceOk, nLines, pc, job, active, mq,
                   lineQ, lineNumber, batch, idx, ctx, paused, faults, faulted, badLines,
                   persisted, flush, last, out>>

\* cancelJob: the store executes the update and answers; on success
\* Object.assign(this, row), activeJobs.delete(jobId), return true
CancelReturns ==
    /\ pc # "crashed" /\ cq.st = "sent"
    /\ cq' = NoQuery
    /\ IF JobUpdateOk(cq.upd)
       THEN /\ dbJob' = ApplyUpd(dbJob, cq.upd)
            /\ job' = (IF pc = "done" THEN job ELSE ApplyUpd(dbJob, cq.upd))
            /\ active' = FALSE /\ cancelRes' = "true"
       ELSE /\ dbJob' = dbJob
            /\ job' = job /\ active' = active /\ cancelRes' = "threw"
    /\ UNCHANGED <<store, storeUp, sourceOk, nLines, pc, mq, lineQ,
                   lineNumber, batch, idx, ctx, paused, cancels, cancelSaw,
                   faults, faulted, badLines, persisted, flush, last, out>>

(* ----------------------------- environment ----------------------------- *)
Running == pc \notin {"idle", "rejected", "done", "crashed"}
FaultNow == IF dbJob.status = "PROCESSING" THEN "processing"
            ELSE IF faulted = "none" THEN "early" ELSE faulted

\* the store becomes unreachable
StoreDown ==
    /\ Running /\ storeUp /\ faults < MaxFaults
    /\ storeUp' = FALSE
    /\ faults' = faults + 1
    /\ faulted' = FaultNow
    /\ UNCHANGED <<store, dbJob, sourceOk, nLines, pc, job, active, mq, lineQ,
                   lineNumber, batch, idx, ctx, paused, cq, cancelRes, cancels,
                   cancelSaw, badLines, persisted, flush, last, out>>

\* the store is reachable again
StoreBack ==
    /\ ~storeUp
    /\ storeUp' = TRUE
    /\ UNCHANGED <<store, dbJob, sourceOk, nLines, pc, job, active, mq, lineQ,
                   lineNumber, batch, idx, ctx, paused, cq, cancelRes, cancels,
                   cancelSaw, faults, faulted, badLines, persisted, flush, last, out>>

\* the source becomes unreadable while it is being read
SourceBreaks ==
    /\ pc \in {"countLines", "reading"} /\ sourceOk /\ faults < MaxFaults
    /\ sourceOk' = FALSE
    /\ faults' = faults + 1
    /\ faulted' = FaultNow
    /\ UNCHANGED <<store, dbJob, storeUp, nLines, pc, job, active, mq, lineQ,
                   lineNumber, batch, idx, ctx, paused, cq, cancelRes, cancels,
                   cancelSaw, badLines, persisted, flush, last, out>>

\* the background task and the store answering it
TaskNext ==
    \/ FindByIdReturns \/ StartReturns \/ CountLinesDone
    \/ TotalReturns \/ LineEvent \/ CloseEvent
    \/ BatchInsertReturns \/ PbUpdateReturns \/ SaveReturns
    \/ FbUpdateReturns \/ FbAddErrorReturns \/ CompleteReturns
    \/ DbApplyMain \/ CancelReturns
    \/ \E n \in 1..MaxLines : DbApplyLine(n)
    \/ \E n \in 1..MaxLines : LineAddErrorReturns(n)

\* ... and the calls from outside
JobNext == Submit \/ CancelJob \/ TaskNext

FaultNext ==
    \/ SourceError \/ FailAddErrorReturns \/ FailUpdateReturns
    \/ StoreDown \/ StoreBack \/ SourceBreaks

Next == JobNext \/ FaultNext

Spec == Init /\ [][Next]_vars

\* a readable source and a reachable store; the event loop runs every callback
\* that is ready and the store answers every query
LiveSpec == Init /\ [][JobNext]_vars /\ WF_vars(TaskNext)

(* ------------------------ claims about the jobs ------------------------ *)
\* processFile has ended and no query of the job is in flight
Quiet ==
    /\ pc = "done" /\ cq.st = "none"
    /\ \A n \in 1..MaxLines : lineQ[n].st = "none"

C2_Counts ==
    (Quiet /\ faults = 0 /\ flush.bulk # "failed") =>
        /\ dbJob.status = "COMPLETED"
        /\ dbJob.processed_lines = nLines - Cardinality(badLines)
        /\ dbJob.error_lines = Cardinality(badLines)
        /\ Len(dbJob.errors) = Cardinality(badLines)
        /\ Range(dbJob.errors) = {LineMsg(n) : n \in badLines}

\* C3: every line is valid and the bulk commit of the batch fails because of
\* exactly one primary-key collision: every other record of the batch is persisted, exactly one error
\* about a record is on the job, processed_lines is the number of records
\* persisted, and the job ends COMPLETED
C3_Fallback ==
    (Quiet /\ faults = 0 /\ badLines = {} /\ flush.oneDup) =>
        /\ dbJob.status = "COMPLETED"
        /\ \A i \in DOMAIN batch \ {flush.dup} : batch[i].id \in persisted
        /\ Cardinality({k \in DOMAIN dbJob.errors : dbJob.errors[k][1] = "Event"}) = 1
        /\ dbJob.processed_lines = Cardinality(persisted)

\* C4: the store became unreachable, or the source unreadable, while the job
\* was PROCESSING and has stayed so: once processFile has ended the job is
\* FAILED (not COMPLETED, not PROCESSING for ever)
C4_Failed ==
    (pc = "done" /\ faulted = "processing" /\ (~storeUp \/ ~sourceOk)) =>
        dbJob.status = "FAILED"

\* C5: with a readable source, a reachable store and fair scheduling every
\* submitted job eventually is COMPLETED
C5_Completes == (dbJob.status = "PENDING") ~> (dbJob.status = "COMPLETED")
\* a job that completed after lines failed and a bulk commit fell back
C5_Witness ==
    /\ pc = "done" /\ dbJob.status = "COMPLETED"
    /\ badLines # {} /\ flush.bulk = "failed" /\ persisted # {}

MaxBatch == 2

\* ON DELETE CASCADE: deleting the rows of `gone` deletes the rows that
\* reference them, and so on
RECURSIVE Cascade(_, _)
CascadeDirect(tbl, gone) == gone \cup {r \in tbl : r.parent \in RowIds(gone)}
Cascade(tbl, gone) ==
    LET more == gone \cup {r \in tbl : r.parent \in RowIds(gone)}
    IN  IF more = gone THEN gone ELSE Cascade(tbl, more)

\* DELETE FROM historical_events WHERE event_id = $1: the rows that go
Deleted(tbl, i) == Cascade(tbl, {r \in tbl : r.id = i})

\* schemas.createEvent / schemas.updateEvent: the custom date rule
CreateValid(s, e) == ~(e <= s)
PatchFields == {"parent", "start", "end"}
UpdateValid(pt) ==
    ~({"start", "end"} \subseteq pt.fields /\ pt.vals.end <= pt.vals.start)

\* the request bodies updateEvent can get
Patches ==
    {pt \in [fields : {{"parent"}, {"start"}, {"end"}, {"start", "end"}},
             vals : [parent : {NULL} \cup Ids, start : Times, end : Times]] :
        \A f \in PatchFields \ pt.fields : pt.vals[f] = 0}

\* UPDATE historical_events SET {FIELDS}: the row after the update
Patched(row, pt) ==
    [f \in DOMAIN row |-> IF f \in pt.fields THEN pt.vals[f] ELSE row[f]]
\* the constraints the updated row must meet
UpdateOk(tbl, row, pt) ==
    /\ chk_date_order(Patched(row, pt))
    /\ fk_parent(tbl, Patched(row, pt))

Done(o, i, r, v) ==
    last' = [NoLast EXCEPT !.op = o, !.id = i, !.res = r, !.viol = v]

jobVars == <<dbJob, storeUp, sourceOk, nLines, pc, job, active, mq, lineQ,
             lineNumber, batch, idx, ctx, paused, cq, cancelRes, cancels,
             cancelSaw, faults, faulted, badLines, persisted, flush>>

\* history only: how far a delete reached (0 the row alone, 1 its children,
\* 2 beyond them)
DeleteDepth(tbl, i) ==
    LET self == {r \in tbl : r.id = i}
    IN  IF Deleted(tbl, i) = self THEN 0
        ELSE IF Deleted(tbl, i) = {r \in tbl : r.id = i \/ r.parent = i} THEN 1
        ELSE 2

\* POST /api/events
CreateEvent(i, p, s, e) ==
    LET ev == Event(i, p, s, e)
        \* history: the request as it stands against the store
        req == [NoLast EXCEPT
                  !.op = "create",
                  !.viol = IF e <= s THEN "both" ELSE "no",
                  !.par = IF p = NULL THEN "none"
                          ELSE IF \E r \in store : r.id = p THEN "stored"
                          ELSE "unknown",
                  !.dup = \E r \in store : r.id = i]
    IN  /\ IF ~CreateValid(s, e)
           THEN store' = store /\ last' = [req EXCEPT !.res = "rejected"]
           ELSE IF p # NULL /\ p \notin RowIds(store)
           THEN store' = store /\ last' = [req EXCEPT !.res = "rejected"]
           ELSE IF ~LineOk(Line(6, i, p, s, e))
           THEN store' = store /\ last' = [req EXCEPT !.res = "rejected"]
           ELSE IF ~InsertOk(store, <<ev>>)
           THEN store' = store /\ last' = [req EXCEPT !.res = "rejected"]
           ELSE store' = InsertRows(store, <<ev>>) /\ last' = [req EXCEPT !.res = "ok"]
        /\ UNCHANGED <<jobVars, out>>

\* PUT /api/events/:eventId
UpdateEvent(i, pt) ==
    /\ IF ~UpdateValid(pt)
       THEN store' = store /\ Done("update", 0, "rejected", "both")
       ELSE IF i \notin RowIds(store)
       THEN store' = store /\ Done("update", 0, "notfound", "no")
       ELSE LET row == RowOf(store, i)
                new == Patched(row, pt)
                viol == IF new.end > new.start THEN "no"
                        ELSE IF {"start", "end"} \subseteq pt.fields THEN "both"
                        ELSE "partial"
            IN  IF /\ "parent" \in pt.fields /\ pt.vals.parent # NULL
                   /\ pt.vals.parent # row.parent
                   /\ pt.vals.parent \notin RowIds(store)
                THEN store' = store /\ Done("update", 0, "rejected", viol)
                ELSE IF ~UpdateOk(store, row, pt)
                THEN store' = store /\ Done("update", 0, "rejected", viol)
                ELSE /\ store' = (store \ {row}) \cup {new}
                     /\ Done("update", 0, "ok", viol)
    /\ UNCHANGED <<jobVars, out>>

\* DELETE /api/events/:eventId
DeleteEvent(i) ==
    /\ IF i \notin RowIds(store)
       THEN store' = store /\ Done("delete", i, "notfound", "no")
       ELSE /\ store' = store \ Deleted(store, i)
            /\ last' = [NoLast EXCEPT !.op = "delete", !.id = i, !.res = "ok",
                                       !.depth = DeleteDepth(store, i)]
    /\ UNCHANGED <<jobVars, out>>

\* processBatch, what it does to the store: one bulk commit, and on failure
\* the records saved one at a time, in order
RECURSIVE Fallback(_, _, _)
Fallback(tbl, b, i) ==
    IF i > Len(b) THEN tbl
    ELSE IF InsertOk(tbl, <<b[i]>>)
         THEN Fallback(InsertRows(tbl, <<b[i]>>), b, i + 1)
         ELSE Fallback(tbl, b, i + 1)
ProcessBatch(tbl, b) ==
    IF InsertOk(tbl, b) THEN InsertRows(tbl, b) ELSE Fallback(tbl, b, 1)

\* the lines a file ingested in StoreSpec can hold
StoreLines ==
    {Line(6, i, p, 0, 1) : i \in FileIds, p \in {NULL} \cup FileIds}
        \cup {Line(5, 1, NULL, 0, 1)}
ParsedBatch(ls) == [k \in DOMAIN ls |-> LineEvent_(ls[k])]

\* an ingestion job: the lines createFromFileLine accepts, flushed as one batch
Ingest(ls) ==
    LET b == ParsedBatch(SelectSeq(ls, LineOk))
    IN  /\ store' = ProcessBatch(store, b)
        /\ Done("ingest", 0, IF InsertOk(store, b) THEN "bulk" ELSE "fallback", "no")
    /\ UNCHANGED <<jobVars, out>>

StoreInit ==
    /\ store = {}
    /\ dbJob = NoRow /\ storeUp = TRUE /\ sourceOk = TRUE /\ nLines = 0
    /\ pc = "idle" /\ job = NoRow /\ active = FALSE /\ mq = NoQuery
    /\ lineQ = [n \in 1..MaxLines |-> NoQuery]
    /\ lineNumber = 0 /\ batch = <<>> /\ idx = 0 /\ ctx = "close" /\ paused = FALSE
    /\ cq = NoQuery /\ cancelRes = "none" /\ cancels = 0 /\ cancelSaw = "NONE"
    /\ faults = 0 /\ faulted = "none" /\ badLines = {} /\ persisted = {}
    /\ flush = NoFlush
    /\ last = NoLast
    /\ out = NoOut

StoreNext ==
    \/ \E i \in Ids, p \in {NULL} \cup Ids, s \in Times, e \in Times : CreateEvent(i, p, s, e)
    \/ \E i \in Ids, pt \in Patches : UpdateEvent(i, pt)
    \/ \E i \in Ids : DeleteEvent(i)
    \/ \E n \in 1..MaxBatch : \E ls \in [1..n -> StoreLines] : Ingest(ls)

StoreSpec == StoreInit /\ [][StoreNext]_vars

(* ----------------------- claims about the event store ------------------ *)
\* following parent references from event x, for at most k steps, arrives at a
RECURSIVE Reaches(_, _, _, _)
Reaches(tbl, x, a, k) ==
    \/ x = a
    \/ /\ k > 0
       /\ \E r \in tbl : /\ r.id = x
                         /\ r.parent # NULL
                         /\ Reaches(tbl, r.parent, a, k - 1)

\* C7: the parent relation over the stored events is a forest: no event is
\* its own ancestor (an update or insert that would create a self-reference or
\* a cycle is rejected).  The code has no such check: this fails.
C7_Forest ==
    \A r \in store : r.parent # NULL => ~Reaches(store, r.parent, r.id, NumIds)

\* C8: every stored event that has a parent references an event that is stored
C8_ParentStored ==
    \A r \in store : r.parent # NULL => \E q \in store : q.id = r.parent
\* a batch went through the one-by-one fallback and left a child in the store
C8_Witness ==
    /\ last.op = "ingest" /\ last.res = "fallback"
    /\ \E r \in store : r.parent # NULL /\ r.parent # r.id

\* C9: every stored event ends after it starts, and a request whose result
\* would not (a create, or an update giving both dates or only one of them)
\* is rejected and leaves the store as it was
C9_DateOrder ==
    [][/\ \A r \in store' : r.end > r.start
       /\ last'.viol # "no" => last'.res = "rejected" /\ store' = store]_vars
\* an update that set only one of the two dates was rejected
C9_Witness ==
    /\ last.op = "update" /\ last.viol = "partial" /\ last.res = "rejected"
    /\ store # {}

\* C10: delete(id) of a stored event removes it and every event that reaches it
\* through parent references and leaves every other event as it was; delete of
\* an id that is not stored answers not-found and changes nothing
C10_Delete ==
    [][last'.op = "delete" =>
         IF \E r \in store : r.id = last'.id
         THEN /\ last'.res = "ok"
              /\ store' = {r \in store : ~Reaches(store, r.id, last'.id, NumIds)}
         ELSE last'.res = "notfound" /\ store' = store]_vars
\* a delete took descendants beyond the direct children with it
C10_Witness == last.op = "delete" /\ last.res = "ok" /\ last.depth = 2

\* C11, as stated: create with a parent id that names no stored event answers
\* not-found and persists nothing; with no parent or a stored parent (dates in
\* order, id not in use) it persists the event
C11_AsStated ==
    [][(last'.op = "create" /\ last'.viol = "no" /\ ~last'.dup) =>
         IF last'.par = "unknown"
         THEN last'.res = "notfound" /\ store' = store
         ELSE /\ last'.res = "ok"
              /\ \E r \in store' \ store :
                    /\ store' = store \cup {r}
                    /\ (last'.par = "none") = (r.parent = NULL)]_vars

\* C11, amended: create with a parent id that names no stored event is rejected
\* as a validation error (400, not 404) and persists nothing; with no parent or
\* a stored parent (dates in order, id not in use) it persists the event
C11_Create ==
    [][(last'.op = "create" /\ last'.viol = "no" /\ ~last'.dup) =>
         IF last'.par = "unknown"
         THEN last'.res = "rejected" /\ store' = store
         ELSE /\ last'.res = "ok"
              /\ \E r \in store' \ store :
                    /\ store' = store \cup {r}
                    /\ (last'.par = "none") = (r.parent = NULL)]_vars
\* a create naming an unknown parent was turned down with other events stored
C11_Witness ==
    /\ last.op = "create" /\ last.par = "unknown" /\ last.res = "rejected"
    /\ last.viol = "no" /\ ~last.dup /\ store # {}

(* --------------------- queries on the event store ---------------------- *)
\* longest flat list handed to buildHierarchy
MaxList == 3

\* nothing is running: the ingestion service as constructed, no request yet
JobIdle ==
    /\ dbJob = NoRow /\ storeUp = TRUE /\ sourceOk = TRUE /\ nLines = 0
    /\ pc = "idle" /\ job = NoRow /\ active = FALSE /\ mq = NoQuery
    /\ lineQ = [n \in 1..MaxLines |-> NoQuery]
    /\ lineNumber = 0 /\ batch = <<>> /\ idx = 0 /\ ctx = "close" /\ paused = FALSE
    /\ cq = NoQuery /\ cancelRes = "none" /\ cancels = 0 /\ cancelSaw = "NONE"
    /\ faults = 0 /\ faulted = "none" /\ badLines = {} /\ persisted = {}
    /\ flush = NoFlush
    /\ last = NoLast
\* a query leaves everything but its answer as it is
Asked(o, a, st, r) ==
    /\ out' = [NoOut EXCEPT !.op = o, !.arg = a, !.st = st, !.res = r]
    /\ UNCHANGED <<store, jobVars, last>>

\* buildHierarchy returned null
NoTree == [root |-> NULL]

\* the ids of the events of a list, in list order
IdsOf(events) == [k \in DOMAIN events |-> events[k].id]

\* HistoricalEvent.buildHierarchy: the node of events[0], the nodes being
\* given by the children list of every id of the list (eventMap)
buildHierarchy_first(events) ==
    IF Len(events) = 0 THEN NoTree
    ELSE [root |-> events[1].id,
          children |-> [i \in Range(IdsOf(events)) |->
                          IF i = events[1].id
                          THEN IdsOf(SelectSeq(events, LAMBDA e : e.parent = i))
                          ELSE <<>>]]
buildHierarchy(events) ==
    IF Len(events) = 0 THEN NoTree
    ELSE [root |-> events[1].id,
          children |-> [i \in Range(IdsOf(events)) |->
                          IdsOf(SelectSeq(events, LAMBDA e : e.parent # NULL /\ e.parent = i))]]

\* the events a flat list can hold
Lists ==
    UNION {[1..n -> {Event(i, p, 0, 1) : i \in Ids, p \in {NULL} \cup Ids}] :
             n \in 0..MaxList}

\* a call of buildHierarchy
BuildHierarchyCall(events) ==
    Asked("buildHierarchy", events, "ok", buildHierarchy(events))

\* a query is asked on a store of the given set, with no job under way
QueryInit(stores) == store \in stores /\ out = NoOut /\ JobIdle
HierNext == \E events \in Lists : BuildHierarchyCall(events)
HierSpec == QueryInit({{}}) /\ [][HierNext]_vars

\* number of nodes of the tree t under node i, children followed d levels deep
RECURSIVE TreeSize(_, _, _)
RECURSIVE SizeAll(_, _, _)
SizeAll(t, is, d) ==
    IF is = <<>> THEN 0 ELSE TreeSize(t, Head(is), d) + SizeAll(t, Tail(is), d)
TreeSize(t, i, d) ==
    IF d = 0 THEN 1 ELSE 1 + SizeAll(t, t.children[i], d - 1)

\* every event of the list but the first hangs under its parent's node
Attached(events, t) ==
    \A k \in 2..Len(events) :
        /\ \E j \in DOMAIN events : events[j].id = events[k].parent
        /\ \E c \in DOMAIN t.children[events[k].parent] :
              t.children[events[k].parent][c] = events[k].id

\* a list as the timeline query returns it: distinct ids, the root first,
\* every later event the child of an earlier one
RootFirst(events) ==
    /\ \A j, k \in DOMAIN events : events[j].id = events[k].id => j = k
    /\ \A k \in DOMAIN events : events[1].parent # events[k].id
    /\ \A k \in 2..Len(events) : \E j \in 1..(k - 1) : events[j].id = events[k].parent

\* C13, as stated: for any flat list the tree has exactly len(events) nodes and
\* every non-root node hangs under its parent, which is in the list; for the
\* empty list the answer is none
C13_AsStated ==
    out.op = "buildHierarchy" =>
        IF Len(out.arg) = 0 THEN out.res = NoTree
        ELSE /\ out.res # NoTree
             /\ TreeSize(out.res, out.res.root, MaxList) = Len(out.arg)
             /\ Attached(out.arg, out.res)

\* C13, amended: the same for a list with distinct ids that starts with the
\* root and in which every later event is the child of an earlier one
C13_Hierarchy ==
    (out.op = "buildHierarchy" /\ RootFirst(out.arg)) =>
        IF Len(out.arg) = 0 THEN out.res = NoTree
        ELSE /\ out.res # NoTree
             /\ TreeSize(out.res, out.res.root, MaxList) = Len(out.arg)
             /\ Attached(out.arg, out.res)
\* a chain of three events was assembled
C13_Witness ==
    /\ out.op = "buildHierarchy" /\ RootFirst(out.arg) /\ Len(out.arg) = 3
    /\ out.arg[3].parent = out.arg[2].id

(* ------------------------------ getTimeline ---------------------------- *)
\* the stores the timeline and path queries are asked on: every store over
\* Ids that meets the foreign key, starts 0 or 1
TreeStores ==
    {tbl \in {{Event(i, f[i][1], f[i][2], MaxTime) : i \in {j \in Ids : f[j] # <<>>}} :
                 f \in [Ids -> {<<>>} \cup (({NULL} \cup Ids) \X {0, 1})]} :
        \A r \in tbl : fk_parent(tbl, r)}

\* GET_TIMELINE_HIERARCHY: the rows the recursive query adds at level k
RECURSIVE Frontier(_, _, _)
Frontier(tbl, root, k) ==
    IF k = 0 THEN {r \in tbl : r.id = root}
    ELSE {r \in tbl : r.parent \in RowIds(Frontier(tbl, root, k - 1))}
\* the recursion never runs dry: some level beyond the number of rows is not empty
CteLoops(tbl, root) == Frontier(tbl, root, Cardinality(tbl)) # {}
LevelOf(tbl, root, r) == CHOOSE k \in 0..Cardinality(tbl) : r \in Frontier(tbl, root, k)
\* ORDER BY level, start_date: the orders the rows can come in
TimelineOrders(tbl, root) ==
    {rows \in [1..Cardinality(UNION {Frontier(tbl, root, k) : k \in 0..Cardinality(tbl)})
                  -> UNION {Frontier(tbl, root, k) : k \in 0..Cardinality(tbl)}] :
        /\ \A a, b \in DOMAIN rows : rows[a] = rows[b] => a = b
        /\ \A a, b \in DOMAIN rows : a < b =>
              \/ LevelOf(tbl, root, rows[a]) < LevelOf(tbl, root, rows[b])
              \/ /\ LevelOf(tbl, root, rows[a]) = LevelOf(tbl, root, rows[b])
                 /\ rows[a].start <= rows[b].start}

\* GET /api/timeline/:rootEventId
GetTimeline(rootId) ==
    IF rootId \notin RowIds(store)
    THEN Asked("timeline", rootId, "notfound", NoTree)
    ELSE IF CteLoops(store, rootId)
    THEN Asked("timeline", rootId, "noanswer", NoTree)
    ELSE \E rows \in TimelineOrders(store, rootId) :
            Asked("timeline", rootId,
                  IF buildHierarchy(rows) = NoTree THEN "notfound" ELSE "ok",
                  buildHierarchy(rows))

TreeNext == \E rootId \in Ids : GetTimeline(rootId)
TreeSpec == QueryInit(TreeStores) /\ [][TreeNext]_vars

\* C14: getTimeline(rootId) of a stored root returns the root with exactly its
\* transitive descendants nested under it, the children of each node being
\* exactly the stored events whose parent it is; for an id that is not stored
\* it fails with NotFound
C14_Timeline ==
    out.op = "timeline" =>
        IF \A r \in store : r.id # out.arg
        THEN out.st = "notfound"
        ELSE /\ out.st = "ok"
             /\ out.res.root = out.arg
             /\ DOMAIN out.res.children =
                   {r.id : r \in {q \in store : Reaches(store, q.id, out.arg, NumIds)}}
             /\ \A i \in DOMAIN out.res.children :
                   /\ Range(out.res.children[i])
                         = {r.id : r \in {q \in store : q.parent = i}}
                   /\ Len(out.res.children[i])
                         = Cardinality({q \in store : q.parent = i})

(* -------------------------- temporal questions ------------------------- *)
\* times of the temporal questions, in ticks of 30 seconds
MaxTick == 6
Ticks == 0..MaxTick
\* Math.round(seconds / 60) of a number of ticks
Minutes(ticks) == (ticks + 1) \div 2
Min2(a, b) == IF a <= b THEN a ELSE b
Max2(a, b) == IF a >= b THEN a ELSE b

\* the stores the temporal questions are asked on: events without parents,
\* every one with end after start
TimeStoreOf(f) ==
    {Event(i, NULL, f[i][1], f[i][2]) : i \in {j \in Ids : f[j] # <<>>}}
TimeStores ==
    {TimeStoreOf(f) :
        f \in [Ids -> {<<>>} \cup {sp \in Ticks \X Ticks : sp[1] < sp[2]}]}

\* WHERE start_date >= $1 AND end_date <= $2
Inside(tbl, a, b) == {r \in tbl : r.start >= a /\ r.end <= b}
\* the orders a set of rows can come in when sorted by key, a function on the
\* rows (ties in any order)
Sorted(rows, key, desc) ==
    {o \in [1..Cardinality(rows) -> rows] :
        /\ \A i, j \in DOMAIN o : o[i] = o[j] => i = j
        /\ \A i, j \in DOMAIN o : i < j =>
              IF desc THEN key[o[i]] >= key[o[j]] ELSE key[o[i]] <= key[o[j]]}

\* FIND_OVERLAPPING_EVENTS: the joined rows
OverlapJoin_any(e1, e2) == e1.id < e2.id
OverlapJoin(e1, e2) ==
    /\ e1.id < e2.id
    /\ e1.start < e2.end
    /\ e2.start < e1.end
OverlapRows(tbl, a, b) ==
    {pr \in Inside(tbl, a, b) \X Inside(tbl, a, b) : OverlapJoin(pr[1], pr[2])}
\* LEAST(e1.end_date, e2.end_date) - GREATEST(e1.start_date, e2.start_date)
overlap_duration(pr) == Min2(pr[1].end, pr[2].end) - Max2(pr[1].start, pr[2].start)
MapRows(o, f) == [i \in DOMAIN o |-> f[o[i]]]

\* GET /api/insights/overlapping-events
FindOverlaps(a, b) ==
    IF b <= a
    THEN Asked("overlaps", <<a, b>>, "rejected", <<>>)
    ELSE \E o \in Sorted(OverlapRows(store, a, b),
                         [pr \in OverlapRows(store, a, b) |-> overlap_duration(pr)],
                         TRUE) :
            Asked("overlaps", <<a, b>>, "ok", MapRows(o, [pr \in OverlapRows(store, a, b) |->
                                   <<pr[1].id, pr[2].id, Minutes(overlap_duration(pr))>>]))

\* FIND_TEMPORAL_GAPS: the rows of gaps for one order of the window
GapRows(o) == {i \in DOMAIN o : i < Len(o) /\ o[i + 1].start > o[i].end}
GapOf(o, i) == o[i + 1].start - o[i].end
\* WHERE gap_duration_minutes = (SELECT MAX(gap_duration_minutes) FROM gaps)
MaxGaps_all(o) == GapRows(o)
MaxGaps(o) == {i \in GapRows(o) : \A j \in GapRows(o) : GapOf(o, j) <= GapOf(o, i)}
\* FIND_SUCCEEDING_EVENT
Succeeding(tbl, gapEnd, a, b) == {r \in Inside(tbl, a, b) : r.start = gapEnd}

\* GET /api/insights/temporal-gaps
FindTemporalGap(a, b) ==
    IF b <= a
    THEN Asked("gap", <<a, b>>, "rejected", <<>>)
    ELSE \E o \in Sorted(Inside(store, a, b), [r \in Inside(store, a, b) |-> r.start], FALSE) :
            IF MaxGaps(o) = {}
            THEN Asked("gap", <<a, b>>, "none", <<>>)
            ELSE \E i \in MaxGaps(o) :
                 \E succ \in Succeeding(store, o[i + 1].start, a, b) :
                    Asked("gap", <<a, b>>, "ok",
                          <<o[i].end, o[i + 1].start, Minutes(GapOf(o, i)),
                            o[i].id, succ.id>>)

\* the ranges asked for: four proper ones, an empty one and a reversed one
TimeNext ==
    \E rg \in ({0, 1} \X {MaxTick - 1, MaxTick}) \cup {<<1, 1>>, <<MaxTick, 0>>} :
        \/ FindOverlaps(rg[1], rg[2])
        \/ FindTemporalGap(rg[1], rg[2])
TimeSpec == QueryInit(TimeStores) /\ [][TimeNext]_vars

\* the overlaps asked for, as the claim describes them: the unordered pairs of
\* distinct events inside the range whose intervals intersect
ClaimedPairs(tbl, a, b) ==
    {pr \in tbl \X tbl :
        /\ pr[1].id < pr[2].id
        /\ \A n \in {1, 2} : a <= pr[n].start /\ pr[n].end <= b
        /\ pr[1].start < pr[2].end
        /\ pr[2].start < pr[1].end}
PairOf(tbl, row) ==
    CHOOSE pr \in tbl \X tbl : pr[1].id = row[1] /\ pr[2].id = row[2]
\* the list holds exactly the claimed pairs, each once, in non-increasing
\* order of the reported duration
OverlapList(tbl, a, b, rows) ==
    /\ {<<rows[i][1], rows[i][2]>> : i \in DOMAIN rows}
          = {<<pr[1].id, pr[2].id>> : pr \in ClaimedPairs(tbl, a, b)}
    /\ Len(rows) = Cardinality(ClaimedPairs(tbl, a, b))
    /\ \A i, j \in DOMAIN rows : i < j => rows[i][3] >= rows[j][3]

\* C15 as stated: the reported duration is min(endA,endB) - max(startA,startB)
\* in minutes (2 ticks to the minute)
C15_AsStated ==
    (out.op = "overlaps" /\ out.st = "ok") =>
        /\ OverlapList(store, out.arg[1], out.arg[2], out.res)
        /\ \A i \in DOMAIN out.res :
              2 * out.res[i][3] = overlap_duration(PairOf(store, out.res[i]))

\* C15: findOverlaps(range) returns exactly the unordered pairs of distinct
\* events that lie fully inside the range and satisfy startA < endB and
\* startB < endA, each pair once, each with the overlap
\* min(endA,endB) - max(startA,startB) rounded to the nearest whole minute
\* (half a minute rounds up), in non-increasing order of that duration
C15_Overlaps ==
    (out.op = "overlaps" /\ out.st = "ok") =>
        /\ OverlapList(store, out.arg[1], out.arg[2], out.res)
        /\ \A i \in DOMAIN out.res :
              /\ 2 * out.res[i][3] >= overlap_duration(PairOf(store, out.res[i]))
              /\ 2 * out.res[i][3] <= overlap_duration(PairOf(store, out.res[i])) + 1
C15_Witness ==
    /\ out.op = "overlaps" /\ out.st = "ok"
    /\ Len(out.res) = 2
    /\ out.res[1][3] = 2 /\ out.res[2][3] = 1
    /\ overlap_duration(PairOf(store, out.res[1])) = 3

\* the events inside a range, and the orders by start they can be put in
InRange(tbl, a, b) == {r \in tbl : a <= r.start /\ r.end <= b}
ByStart(rows) ==
    {o \in [1..Cardinality(rows) -> rows] :
        /\ \A r \in rows : \E i \in DOMAIN o : o[i] = r
        /\ \A i \in DOMAIN o : i < Len(o) => o[i].start <= o[i + 1].start}
\* the answer is the largest positive gap between adjacent events of order o
GapAnswer(tbl, a, b, o, st, res) ==
    IF \A i \in 1..(Len(o) - 1) : o[i + 1].start - o[i].end <= 0
    THEN st = "none"
    ELSE /\ st = "ok"
         /\ \E i \in 1..(Len(o) - 1) :
               /\ \A j \in 1..(Len(o) - 1) :
                     o[j + 1].start - o[j].end <= o[i + 1].start - o[i].end
               /\ res[1] = o[i].end
               /\ res[2] = o[i + 1].start
               /\ res[4] = o[i].id
               /\ \E succ \in InRange(tbl, a, b) : succ.id = res[5] /\ succ.start = res[2]

C18_Deterministic ==
    [][(out.op \in {"overlaps", "gap"} /\ out'.op = out.op /\ out'.arg = out.arg
          /\ store' = store)
        => out' = out]_vars

(* --------------------------- findInfluencePath ------------------------- *)
\* the longest chain of events the path question is asked on
MaxChain == 21
\* array_length(ep.path, 1) < 20
MAX_PATH_LENGTH == 20
\* duration_minutes, generated from end_date - start_date
duration_minutes(r) == Minutes(r.end - r.start)

\* the stores the path question is asked on: every store over Ids that meets
\* the foreign key, and the chain 1 <- 2 <- ... <- MaxChain; events last 1 or
\* 2 minutes
PathStores ==
    {tbl \in {{Event(i, f[i][1], 0, f[i][2]) : i \in {j \in Ids : f[j] # <<>>}} :
                 f \in [Ids -> {<<>>} \cup (({NULL} \cup Ids) \X {2, 4})]} :
        \A r \in tbl : fk_parent(tbl, r)}
        \cup {{Event(i, i - 1, 0, 2 + 2 * (i % 2)) : i \in 1..MaxChain}}

\* FIND_SHORTEST_PATH: the join of an event with the end of a path
PathJoin_down(he, ep) == he.parent = ep.id
PathJoin(he, ep) == he.parent = ep.id \/ he.id = ep.parent
\* a step that also extends the paths of MAX_PATH_LENGTH events
PathStep_more(tbl, paths) ==
    UNION {{Append(pt, he.id) :
                he \in {h \in tbl : /\ PathJoin(h, RowOf(tbl, pt[Len(pt)]))
                                    /\ \A k \in DOMAIN pt : pt[k] # h.id}} :
            pt \in {q \in paths : Len(q) < MAX_PATH_LENGTH + 1}}
\* the paths one step of the recursion adds to the paths of the step before
PathStep(tbl, paths) ==
    UNION {{Append(pt, he.id) :
                he \in {h \in tbl : /\ PathJoin(h, RowOf(tbl, pt[Len(pt)]))
                                    /\ \A k \in DOMAIN pt : pt[k] # h.id}} :
            pt \in {q \in paths : Len(q) < MAX_PATH_LENGTH}}
RECURSIVE event_paths(_, _)
event_paths(tbl, paths) ==
    IF paths = {} THEN {} ELSE paths \cup event_paths(tbl, PathStep(tbl, paths))
RECURSIVE total_duration(_, _)
total_duration(tbl, pt) ==
    IF pt = <<>> THEN 0
    ELSE duration_minutes(RowOf(tbl, Head(pt))) + total_duration(tbl, Tail(pt))
\* WHERE event_id = $2 ORDER BY total_duration ASC LIMIT 1
ShortestPaths(tbl, source, target) ==
    LET found == {pt \in event_paths(tbl, {<<source>>}) : pt[Len(pt)] = target}
    IN  {pt \in found : \A q \in found : total_duration(tbl, pt) <= total_duration(tbl, q)}

\* GET /api/insights/event-influence
FindInfluencePath(source, target) ==
    IF source = target \/ source \notin RowIds(store) \/ target \notin RowIds(store)
    THEN Asked("path", <<source, target>>, "rejected", <<<<>>, 0>>)
    ELSE IF ShortestPaths(store, source, target) = {}
    THEN Asked("path", <<source, target>>, "none", <<<<>>, 0>>)
    ELSE \E pt \in ShortestPaths(store, source, target) :
            Asked("path", <<source, target>>, "ok", <<pt, total_duration(store, pt)>>)

\* the events asked about: the first ones and the last two of the chain
PathNext ==
    \E source \in Ids \cup {MaxChain - 1, MaxChain},
       target \in Ids \cup {MaxChain - 1, MaxChain} :
        FindInfluencePath(source, target)
PathSpec == QueryInit(PathStores) /\ [][PathNext]_vars

\* two events are linked when one is the parent of the other
Linked(tbl, x, y) ==
    \E r \in tbl : (r.id = x /\ r.parent = y) \/ (r.id = y /\ r.parent = x)
\* the events within k links of the events of S
RECURSIVE Within(_, _, _)
Within(tbl, S, k) ==
    IF k = 0 THEN S
    ELSE Within(tbl, S \cup {r.id : r \in {q \in tbl : \E x \in S : Linked(tbl, q.id, x)}},
                k - 1)
RECURSIVE SumDurations(_, _, _)
SumDurations(tbl, pt, n) ==
    IF n = 0 THEN 0
    ELSE SumDurations(tbl, pt, n - 1)
            + ((CHOOSE r \in tbl : r.id = pt[n]).end
                 - (CHOOSE r \in tbl : r.id = pt[n]).start) \div 2
\* res is a path from source to target with its total duration
IsPath(tbl, source, target, res) ==
    /\ Len(res[1]) >= 2
    /\ res[1][1] = source
    /\ res[1][Len(res[1])] = target
    /\ \A i, j \in DOMAIN res[1] : i # j => res[1][i] # res[1][j]
    /\ \A i \in 1..(Len(res[1]) - 1) : Linked(tbl, res[1][i], res[1][i + 1])
    /\ res[2] = SumDurations(tbl, res[1], Len(res[1]))

\* C17 as stated: for any two connected events the path is returned
C17_AsStated ==
    (out.op = "path" /\ out.st # "rejected") =>
        IF out.arg[2] \in Within(store, {out.arg[1]}, Cardinality(store))
        THEN out.st = "ok" /\ IsPath(store, out.arg[1], out.arg[2], out.res)
        ELSE out.st = "none"

\* C17: for two stored events connected through at most 19 parent/child links
\* followed in either direction, findInfluencePath(source, target) returns a
\* path that starts at source, ends at target, repeats no event and has every
\* consecutive pair linked as parent and child, with total duration equal to
\* the sum of the durations of the events on it; it returns none when the two
\* events are not connected or are more than 19 links apart
C17_Path ==
    (out.op = "path" /\ out.st # "rejected") =>
        IF out.arg[2] \in Within(store, {out.arg[1]}, 19)
        THEN out.st = "ok" /\ IsPath(store, out.arg[1], out.arg[2], out.res)
        ELSE out.st = "none"
C17_Witness ==
    /\ out.op = "path" /\ out.st = "ok"
    /\ Len(out.res[1]) = 20
    /\ out.arg[1] < out.arg[2]
    /\ out.res[2] > Len(out.res[1])

(* -------------------------------- search ------------------------------- *)
\* the number of events of the large store the search is asked on
MaxRows == 101
\* API.DEFAULT_PAGE_SIZE, API.MAX_PAGE_SIZE
DEFAULT_PAGE_SIZE == 10
MAX_PAGE_SIZE == 100

\* a query parameter: <<FALSE, 0>> when it is absent, <<TRUE, v>> when given
Absent == <<FALSE, 0>>
Given(v) == <<TRUE, v>>
\* filters.x || d
OrDefault(x, d) == IF x[1] /\ x[2] # 0 THEN x[2] ELSE d

\* the stores the search is asked on: up to 3 events that share start times,
\* and MaxRows events one after the other
SearchStores ==
    {TimeStoreOf(f) : f \in [Ids -> {<<>>, <<0, 1>>, <<2, 3>>}]}
        \cup {{Event(i, NULL, i, i + 1) : i \in 1..MaxRows}}

\* buildWhereClause: start_date >= start_date_after
Where(tbl, after) == {r \in tbl : after[1] => r.start >= after[2]}
\* ORDER BY start_date ASC | DESC: the orders the rows can come in
OrderBy(rows, desc) ==
    IF Cardinality({r.start : r \in rows}) = Cardinality(rows)
    THEN LET placed == {<<Cardinality({q \in rows : IF desc THEN q.start > r.start
                                                             ELSE q.start < r.start}),
                          r>> : r \in rows}
         IN  {[i \in 1..Cardinality(rows) |->
                  (CHOOSE pl \in placed : pl[1] = i - 1)[2]]}
    ELSE Sorted(rows, [r \in rows |-> r.start], desc)

\* Math.min(filters.limit || API.DEFAULT_PAGE_SIZE, API.MAX_PAGE_SIZE)
EffLimit(limit) == Min2(OrDefault(limit, DEFAULT_PAGE_SIZE), MAX_PAGE_SIZE)
\* ((filters.page || 1) - 1) * limit
Offset(page, limit) == (OrDefault(page, 1) - 1) * EffLimit(limit)

\* EventRepository.search(filters): events, totalEvents, page, limit
search(via, after, desc, page, limit) ==
    IF EffLimit(limit) < 0 \/ Offset(page, limit) < 0
    THEN Asked("search", <<via, after, desc, page, limit>>, "error", <<<<>>, 0, 0, 0>>)
    ELSE \E o \in OrderBy(Where(store, after), desc) :
            Asked("search", <<via, after, desc, page, limit>>, "ok",
                  <<MapRows(SubSeq(o, Offset(page, limit) + 1,
                                   Min2(Offset(page, limit) + EffLimit(limit), Len(o))),
                            [r \in store |-> r.id]),
                    Cardinality(Where(store, after)),
                    OrDefault(page, 1),
                    EffLimit(limit)>>)

\* GET /api/events/search: validateSearchEvents, then searchEvents
SearchRoute(after, desc, page, limit) ==
    IF \/ page[1] /\ page[2] < 1
       \/ limit[1] /\ (limit[2] < 1 \/ limit[2] > 100)
    THEN Asked("search", <<"route", after, desc, page, limit>>, "rejected", <<<<>>, 0, 0, 0>>)
    ELSE search("route", after, desc, page, limit)

\* the parameters asked with: absent, negative, zero, small, above the maximum
SearchNext ==
    \E after \in {Absent, Given(2)}, desc \in BOOLEAN,
       page \in {Absent, Given(-1), Given(0), Given(2)},
       limit \in {Absent, Given(-1), Given(0), Given(2), Given(MAX_PAGE_SIZE + 1)} :
        \/ SearchRoute(after, desc, page, limit)
        \/ search("call", after, desc, page, limit)
SearchSpec == QueryInit(SearchStores) /\ [][SearchNext]_vars

\* the events that match the filter, and the number of them that a sorted
\* list puts before event r (strictly, or at the same start)
Matching(tbl, after) == {r \in tbl : ~after[1] \/ r.start >= after[2]}
Before(rows, r, desc, strict) ==
    Cardinality({q \in rows :
        \/ IF desc THEN q.start > r.start ELSE q.start < r.start
        \/ ~strict /\ q.start = r.start})
\* ids is the page of the given size at the given offset of rows sorted by
\* start: every event stands at a place that its start time allows
IsPage(rows, desc, ids, limit, off) ==
    /\ Len(ids) = Max2(0, Min2(limit, Cardinality(rows) - off))
    /\ \A i \in DOMAIN ids : \E r \in rows :
          /\ r.id = ids[i]
          /\ Before(rows, r, desc, TRUE) <= off + i - 1
          /\ off + i - 1 < Before(rows, r, desc, FALSE)
    /\ \A i, j \in DOMAIN ids : i # j => ids[i] # ids[j]

\* C19: search uses an effective page size within [1, 100] for every requested
\* limit (absent, zero, negative or above 100) and a page number >= 1, returns
\* at most that many events starting at offset (page - 1) * limit of the
\* filtered, sorted result, and reports totalEvents as the count of all events
\* matching the filters (checked for the requests whose page is absent or >= 1)
C19_Search ==
    (out.op = "search" /\ (out.arg[4][1] => out.arg[4][2] >= 1)) =>
        /\ out.st = "ok"
        /\ out.res[4] \in 1..100
        /\ out.res[3] >= 1
        /\ Len(out.res[1]) <= out.res[4]
        /\ IsPage(Matching(store, out.arg[2]), out.arg[3], out.res[1],
                  out.res[4], (out.res[3] - 1) * out.res[4])
        /\ out.res[2] = Cardinality(Matching(store, out.arg[2]))

(* ------------------------- createFromFileLine -------------------------- *)
\* a field of a line after trim(): its kind and its value.  "uuid" matches
\* UUID_REGEX, "empty" is the empty string, "NULL" and "null" are that token,
\* "date" is a string that new Date() parses, "comment" is text that starts
\* with #, "other" is anything else
Field(kind, val) == <<kind, val>>
ToUpperCase(kind) == IF kind = "null" THEN "NULL" ELSE kind
JsNull == Field("jsnull", 0)
\* a line of text: blank or not, its number of pipe-separated fields, the
\* fields, and the lengths of the trimmed name and description
FileLine(b, n, i, nm, s, e, p, d) ==
    [blank |-> b, nf |-> n, id |-> i, name |-> nm, start |-> s, end |-> e,
     parent |-> p, desc |-> d]
\* the lines a source file can hold
FileLines ==
    {FileLine(FALSE, 6, i, nm, s, e, p, d) :
        i \in {Field("uuid", 1), Field("empty", 0), Field("other", 0)},
        nm \in {0, VALIDATION.MAX_EVENT_NAME_LENGTH,
                VALIDATION.MAX_EVENT_NAME_LENGTH + 1},
        s \in {Field("date", 0), Field("date", 1), Field("other", 0)},
        e \in {Field("date", 0), Field("date", 1), Field("other", 0)},
        p \in {Field("uuid", 1), Field("empty", 0), Field("other", 0),
               Field("NULL", 0), Field("null", 0)},
        d \in {0, VALIDATION.MAX_DESCRIPTION_LENGTH + 1}}
    \cup {FileLine(TRUE, 1, Field("empty", 0), 0, Field("empty", 0),
                   Field("empty", 0), Field("empty", 0), 0)}
    \cup {FileLine(FALSE, n, Field("uuid", 1), 1, Field("date", 0),
                   Field("date", 1), Field("NULL", 0), 0) : n \in {5, 7}}
    \cup {FileLine(FALSE, 1, Field("comment", 0), 0, Field("empty", 0),
                   Field("empty", 0), Field("empty", 0), 0)}

\* parseFileLine: "null" for a blank line, "throw" for a wrong number of
\* fields, else the fields with the parent token NULL turned into null
parseFileLine(fl) ==
    IF fl.blank THEN <<"null">>
    ELSE IF fl.nf # 6 THEN <<"throw">>
    ELSE <<"data",
           [fl EXCEPT !.parent = IF ToUpperCase(fl.parent[1]) = "NULL"
                                 THEN JsNull ELSE fl.parent]>>
\* validateParentId
validateParentId(parentId) ==
    IF parentId = JsNull \/ parentId[1] = "empty" \/ ToUpperCase(parentId[1]) = "NULL"
    THEN JsNull
    ELSE parentId
\* data.event_id || uuidv4()
EventIdOr(data, gen) == IF data.id[1] = "empty" THEN Field("uuid", gen) ELSE data.id
\* validateAndNormalize: the checks that throw
Throws(data, gen) ==
    \/ data.name = 0
    \/ data.name > VALIDATION.MAX_EVENT_NAME_LENGTH
    \/ data.desc > VALIDATION.MAX_DESCRIPTION_LENGTH
    \/ data.start[1] # "date"
    \/ data.end[1] # "date"
    \/ data.end[2] <= data.start[2]
    \/ EventIdOr(data, gen)[1] # "uuid"
    \/ /\ validateParentId(data.parent) # JsNull
       /\ validateParentId(data.parent)[1] # "uuid"
\* createFromFileLine(line, lineNumber): <<"ok", event>> or <<"error">>;
\* gen is the id uuidv4() hands out
createFromFileLine(fl, gen) ==
    IF parseFileLine(fl)[1] # "data" THEN <<"error">>
    ELSE IF Throws(parseFileLine(fl)[2], gen) THEN <<"error">>
    ELSE <<"ok",
           Event(EventIdOr(parseFileLine(fl)[2], gen)[2],
                 IF validateParentId(parseFileLine(fl)[2].parent) = JsNull
                 THEN NULL ELSE validateParentId(parseFileLine(fl)[2].parent)[2],
                 fl.start[2], fl.end[2])>>

\* FileIngestionService.parseLine(line, lineNumber): "null" for a blank line
\* or a comment, "error" when it throws, else "ok"
parseLine(fl) ==
    IF fl.blank \/ fl.id[1] = "comment" THEN "null"
    ELSE IF fl.nf # 6 THEN "error"
    ELSE IF fl.id[1] # "uuid" THEN "error"
    ELSE IF fl.parent[1] \notin {"NULL", "uuid"} THEN "error"
    ELSE IF fl.start[1] # "date" \/ fl.end[1] # "date" THEN "error"
    ELSE IF fl.end[2] <= fl.start[2] THEN "error"
    ELSE IF fl.name = 0 THEN "error"
    ELSE "ok"

\* rl.on('line'): the parser applied to one line
ParseLine(fl, gen) ==
    Asked("line", fl, createFromFileLine(fl, gen)[1], Tail(createFromFileLine(fl, gen)))
\* validateFile, rl.on('line'): parseLine applied to one sampled line
ValidateLine(fl) == Asked("parseLine", fl, parseLine(fl), <<>>)
ParseNext ==
    \/ \E fl \in FileLines, gen \in Ids : ParseLine(fl, gen)
    \/ \E fl \in FileLines : ValidateLine(fl)
ParseSpec == QueryInit({{}}) /\ [][ParseNext]_vars

\* the lines the claim has accepted
Acceptable(fl) ==
    /\ ~fl.blank
    /\ fl.nf = 6
    /\ fl.id[1] = "uuid"
    /\ fl.parent[1] \in {"uuid", "NULL", "null"}
    /\ fl.start[1] = "date" /\ fl.end[1] = "date" /\ fl.end[2] > fl.start[2]
    /\ fl.name \in 1..255

\* C20: the pipeline's line parser accepts a line exactly when it has 6
\* pipe-separated fields, a well-formed id, a parent field that is a
\* well-formed id or the token NULL in any letter case, two parseable dates
\* with end > start, and a non-empty trimmed name within the length bound;
\* every other line raises an error and yields no record
C20_Parser ==
    out.op = "line" =>
        /\ (out.st = "ok") = Acceptable(out.arg)
        /\ out.st # "ok" => out.st = "error" /\ out.res = <<>>

(* ---------------------------- CSVConverter ----------------------------- *)
\* the data rows a CSV file can hold, as lines of text: "local" is a date
\* without a zone, the parent field is missing ("empty"), the token null, a
\* well-formed id or anything else
CsvRows ==
    {FileLine(FALSE, n, i, nm, s, e, p, 0) :
        n \in {6, 7},
        i \in {Field("uuid", 1), Field("empty", 0), Field("other", 0)},
        nm \in {0, 1},
        s \in {Field("date", 0), Field("local", 0), Field("other", 0)},
        e \in {Field("date", 1), Field("local", 1), Field("empty", 0)},
        p \in {Field("uuid", 2), Field("empty", 0), Field("null", 0),
               Field("other", 0)}}
    \cup {FileLine(TRUE, 1, Field("empty", 0), 0, Field("empty", 0),
                   Field("empty", 0), Field("empty", 0), 0)}
    \cup {FileLine(FALSE, 5, Field("uuid", 1), 1, Field("date", 0),
                   Field("date", 1), Field("empty", 0), 0)}

\* cleanStartDate += 'Z' when the date has no zone
CleanDate(d) == IF d[1] = "local" THEN Field("date", d[2]) ELSE d
\* what the name uuidRegex is bound to in convertCSVLine: the file declares
\* no such name, so evaluating it throws a ReferenceError
uuidRegex == "unbound"
\* convertCSVLine(line, lineNumber): <<"null">> for a blank line, <<"error">>
\* when it throws, else <<"ok", the pipe-delimited line>>
convertCSVLine(row) ==
    IF row.blank THEN <<"null">>
    ELSE IF row.nf < 6 THEN <<"error">>
    ELSE IF "empty" \in {row.id[1], row.start[1], row.end[1]} \/ row.name = 0
         THEN <<"error">>
    ELSE IF row.id[1] # "uuid" THEN <<"error">>
    ELSE IF CleanDate(row.start)[1] # "date" \/ CleanDate(row.end)[1] # "date"
         THEN <<"error">>
    ELSE IF CleanDate(row.end)[2] <= CleanDate(row.start)[2] THEN <<"error">>
    ELSE IF row.parent[1] \in {"empty", "null", "NULL"}
         THEN <<"ok", [row EXCEPT !.nf = 6, !.start = CleanDate(@),
                                  !.end = CleanDate(@), !.parent = Field("NULL", 0)]>>
    ELSE IF uuidRegex = "unbound" \/ row.parent[1] # "uuid" THEN <<"error">>
    ELSE <<"ok", [row EXCEPT !.nf = 6, !.start = CleanDate(@), !.end = CleanDate(@)]>>

\* convertCSVToPipeDelimited, rl.on('line') for a data row: the line is
\* written (res: the line), skipped, or its error collected
ConvertRow(row) ==
    Asked("convert", row, convertCSVLine(row)[1], Tail(convertCSVLine(row)))
CsvSpec == QueryInit({{}}) /\ [][\E row \in CsvRows : ConvertRow(row)]_vars

\* the data rows the claim says are converted
Convertible(row) ==
    /\ ~row.blank /\ row.nf >= 6
    /\ row.id[1] = "uuid" /\ row.name > 0
    /\ row.start[1] \in {"date", "local"} /\ row.end[1] \in {"date", "local"}
    /\ row.end[2] > row.start[2]
    /\ row.parent[1] \in {"empty", "null", "uuid"}

\* C21: convert writes one canonical 6-field line for each data row with a
\* well-formed id, a name, two valid dates with end > start and a parent that
\* is missing or a well-formed id: a missing parent becomes NULL, a present
\* parent is carried through unchanged; a failing row is collected as an
\* error and writes no line
C21_Convert ==
    out.op = "convert" =>
        IF Convertible(out.arg)
        THEN /\ out.st = "ok"
             /\ out.res[1].nf = 6
             /\ out.res[1].id = out.arg.id
             /\ out.res[1].parent = IF out.arg.parent[1] = "uuid"
                                    THEN out.arg.parent ELSE Field("NULL", 0)
        ELSE out.st \in {"error", "null"} /\ out.res = <<>>

(* ------------------------- the batch accumulator ----------------------- *)
\* a source file of one line more than the batch size of the configuration
LongFile == VALIDATION.DEFAULT_BATCH_SIZE + 1
\* a job not yet submitted, on a file of len lines and an empty store
FileInit(len) ==
    /\ store = {} /\ out = NoOut
    /\ dbJob = NoRow /\ storeUp = TRUE /\ sourceOk = TRUE /\ nLines = len
    /\ pc = "idle" /\ job = NoRow /\ active = FALSE /\ mq = NoQuery
    /\ lineQ = [n \in 1..MaxLines |-> NoQuery]
    /\ lineNumber = 0 /\ batch = <<>> /\ idx = 0 /\ ctx = "close" /\ paused = FALSE
    /\ cq = NoQuery /\ cancelRes = "none" /\ cancels = 0 /\ cancelSaw = "NONE"
    /\ faults = 0 /\ faulted = "none" /\ badLines = {} /\ persisted = {}
    /\ flush = NoFlush /\ last = NoLast
\* the job reading a given line next, on a readable file and a reachable store
ReadNext(l) ==
    \/ Submit \/ FindByIdReturns \/ StartReturns \/ CountLinesDone
    \/ TotalReturns \/ DbApplyMain \/ LineRead(l)
    \/ CloseEvent \/ BatchInsertReturns \/ CompleteReturns
\* a file of LongFile valid lines, every line a root event with an id of its own
AccNext == ReadNext(Line(6, lineNumber + 1, NULL, 0, 1)) \/ PbUpdateReturns
AccSpec == FileInit(LongFile) /\ [][AccNext]_vars

\* C22: while a job runs the accumulator never holds more records than the
\* configured batch size (default 100): it is flushed as soon as it is full,
\* so a file with more valid lines than the batch size is committed in more
\* than one batch
C22_Bounded ==
    /\ Len(batch) <= VALIDATION.DEFAULT_BATCH_SIZE
    /\ (pc = "done" /\ nLines > VALIDATION.DEFAULT_BATCH_SIZE) =>
           Cardinality(persisted) > Len(batch)

\* processBatch is outstanding: called and not yet returned or thrown
Committing == pc \in {"batchInsert", "pbUpdate", "fbSave", "fbUpdate", "fbAddError"}

StaleFile ==
    <<Line(5, 1, NULL, 0, 1), Line(6, 1, NULL, 0, 1), Line(6, 2, NULL, 0, 1),
      Line(6, 1, NULL, 0, 1)>>
FallbackNext ==
    \/ ReadNext(StaleFile[IF lineNumber < nLines THEN lineNumber + 1 ELSE 1])
    \/ SaveReturns \/ FbUpdateReturns \/ FbAddErrorReturns
    \/ \E n \in 1..MaxLines : DbApplyLine(n)
    \/ \E n \in 1..MaxLines : LineAddErrorReturns(n)
FallbackSpec == FileInit(Len(StaleFile)) /\ [][FallbackNext]_vars

\* C29: at every point the job's processed_lines is at most the number of
\* events the job has persisted, and once the job has ended (no outage having
\* occurred) it is exactly that number, whether the records went through the
\* bulk commit or the fallback and in whatever order the job-record updates
\* were answered
C29_Processed ==
    /\ dbJob.processed_lines <= Cardinality(persisted)
    /\ (Quiet /\ faults = 0) => dbJob.processed_lines = Cardinality(persisted)

(* ---------------------- the bound of findInfluencePath ------------------ *)
\* the number of parent/child links between two connected events
Hops(tbl, source, target) ==
    CHOOSE k \in 0..Cardinality(tbl) :
        /\ target \in Within(tbl, {source}, k)
        /\ k = 0 \/ target \notin Within(tbl, {source}, k - 1)
\* the answer for a connected pair: a path between the two exactly when they
\* are at most `bound` links apart, else none
HopBound(bound) ==
    (/\ out.op = "path" /\ out.st # "rejected"
     /\ out.arg[2] \in Within(store, {out.arg[1]}, Cardinality(store))) =>
        IF Hops(store, out.arg[1], out.arg[2]) <= bound
        THEN /\ out.st = "ok"
             /\ out.res[1][1] = out.arg[1]
             /\ out.res[1][Len(out.res[1])] = out.arg[2]
             /\ Len(out.res[1]) - 1 >= Hops(store, out.arg[1], out.arg[2])
        ELSE out.st = "none"

\* C24 as stated: findInfluencePath returns the connecting path for every pair
\* of events at most 20 hops apart, and none for a pair more than 20 hops apart
C24_AsStated == HopBound(20)
\* C24: findInfluencePath returns the connecting path for every pair of events
\* at most 19 hops apart (a path of at most 20 events), and none for a pair
\* more than 19 hops apart
C24_HopBound == HopBound(MAX_PATH_LENGTH - 1)
\* a path of 19 hops was returned
C24_Witness == out.op = "path" /\ out.st = "ok" /\ Len(out.res[1]) = MAX_PATH_LENGTH

(* --------------------------- the gap is idle --------------------------- *)
\* C27: the gap findTemporalGap returns is an idle interval: no event inside
\* the queried range is in progress at any time strictly between the gap's
\* start and its end
C27_Idle ==
    (out.op = "gap" /\ out.st = "ok") =>
        \A r \in store :
            (out.arg[1] <= r.start /\ r.end <= out.arg[2]) =>
                ~(r.start < out.res[2] /\ out.res[1] < r.end)

(* ---------------------- the two parsers of a line ---------------------- *)
\* C30: the validator's parser (validateFile / parseLine) and the pipeline's
\* parser (createFromFileLine) agree on every line: applied one after the
\* other to the same line, one reports an error exactly when the other does
C30_Agree ==
    [][(out.op = "line" /\ out'.op = "parseLine" /\ out'.arg = out.arg) =>
           ((out.st = "error") <=> (out'.st = "error"))]_vars

(* ----------------------- the ingestion entry point --------------------- *)
\* validateFile(filePath, maxSampleLines = 10)
maxSampleLines == 10
\* a line of a source file as the text parseLine is given
AsFileLine(l) ==
    FileLine(FALSE, l.nf, Field("uuid", l.id), 1, Field("date", l.start),
             Field("date", l.end),
             IF l.parent = NULL THEN Field("NULL", 0) ELSE Field("uuid", l.parent), 0)
\* validateFile: the numbers of the sampled lines on which parseLine throws
validateFile(file) ==
    {n \in DOMAIN file : n <= maxSampleLines /\ parseLine(AsFileLine(file[n])) = "error"}
\* the files submitted: MaxLines lines, each a line of 5 fields or the valid
\* line of event 1, 2 or 3
EntryFiles ==
    [1..MaxLines -> {Line(5, 1, NULL, 0, 1)} \cup {Line(6, i, NULL, 0, 1) : i \in Ids}]
\* POST /api/events/ingest up to the answer of validateFile: the request is
\* refused with a ValidationError ("invalid") or goes on to startIngestion
IngestEvents(file) ==
    /\ pc = "idle" /\ out = NoOut
    /\ Asked("ingest", file, IF validateFile(file) = {} THEN "valid" ELSE "invalid", <<>>)
EntryNext ==
    \/ \E file \in EntryFiles : IngestEvents(file)
    \/ /\ out.st = "valid"
       /\ \/ ReadNext(out.arg[IF lineNumber < nLines THEN lineNumber + 1 ELSE 1])
          \/ PbUpdateReturns \/ SaveReturns \/ FbUpdateReturns \/ FbAddErrorReturns
EntrySpec == FileInit(MaxLines) /\ [][EntryNext]_vars

\* C25: a file that contains a malformed line is still ingested through the
\* entry point, also when the malformed line is among the first lines: a job
\* is created, and once it has ended every malformed line is recorded as an
\* error of the job and every valid line is committed
C25_Ingested ==
    (out.op = "ingest" /\ \E n \in DOMAIN out.arg : ~LineOk(out.arg[n])) =>
        /\ out.st = "valid"
        /\ pc # "idle" => dbJob # NoRow
        /\ Quiet =>
             \A n \in DOMAIN out.arg :
                IF LineOk(out.arg[n])
                THEN out.arg[n].id \in RowIds(store)
                ELSE LineMsg(n) \in Range(dbJob.errors)

(* ------------------------ the fallback's order ------------------------- *)
\* the ids stored before the job began
StoredBefore == RowIds(store) \ persisted
\* the ids of the records of batch b that are valid and unique: not stored
\* before, and the parent absent, stored before, or such a record of b itself
RECURSIVE GoodIds(_, _, _)
GoodIds(b, before, k) ==
    IF k = 0 THEN {}
    ELSE {b[i].id : i \in {j \in DOMAIN b :
                             /\ b[j].id \notin before
                             /\ b[j].parent \in {NULL} \cup before
                                                 \cup GoodIds(b, before, k - 1)}}

\* C28: when the bulk commit of a batch fails, the one-at-a-time fallback
\* persists every record of the batch that is valid and unique (id not in the
\* store; parent absent, stored, or a valid record of the same batch), in
\* whatever order the records are, and only records that are not, or that
\* repeat an id of the batch, are recorded as errors
C28_Fallback ==
    (Quiet /\ faults = 0 /\ flush.bulk = "failed") =>
        /\ GoodIds(batch, StoredBefore, Len(batch)) \subseteq RowIds(store)
        /\ \A k \in DOMAIN dbJob.errors :
              dbJob.errors[k][1] = "Event" =>
                 \/ dbJob.errors[k][2] \notin GoodIds(batch, StoredBefore, Len(batch))
                 \/ \E i, j \in DOMAIN batch :
                       i # j /\ batch[i].id = batch[j].id /\ batch[i].id = dbJob.errors[k][2]

(* ------------------------- two concurrent jobs -------------------------- *)
\* A second job runs beside the job of the pipeline on the same event store.
\* Every update of a job record is UPDATE ingestion_jobs ... WHERE job_id = $n
\* on the job's own row, so of the second job only what it does to the event
\* store is kept, in `out`: arg is its batch (all its lines are valid), st its
\* position in processBatch, res = <<position of the fallback loop, ids it
\* persisted, ids it recorded as errors>>
OtherJob(b, st, i, done, errs) ==
    out' = [NoOut EXCEPT !.op = "job2", !.arg = b, !.st = st, !.res = <<i, done, errs>>]
\* the second job's processBatch: HistoricalEvent.batchInsert(events) answered
OtherBulk(b) ==
    /\ out = NoOut
    /\ IF InsertOk(store, b)
       THEN /\ store' = InsertRows(store, b)
            /\ OtherJob(b, "done", 0, {b[i].id : i \in DOMAIN b}, <<>>)
       ELSE /\ store' = store
            /\ OtherJob(b, "fallback", 1, {}, <<>>)
    /\ UNCHANGED <<jobVars, last>>
\* the second job's fallback loop: event.save() answered
OtherSave ==
    /\ out.st = "fallback"
    /\ LET b == out.arg
           i == out.res[1]
           st == IF i < Len(b) THEN "fallback" ELSE "done"
       IN  IF InsertOk(store, <<b[i]>>)
           THEN /\ store' = InsertRows(store, <<b[i]>>)
                /\ OtherJob(b, st, i + 1, out.res[2] \cup {b[i].id}, out.res[3])
           ELSE /\ store' = store
                /\ OtherJob(b, st, i + 1, out.res[2], Append(out.res[3], b[i].id))
    /\ UNCHANGED <<jobVars, last>>

\* the file of the first job: a line of 5 fields, then events 1 and 2
FirstFile == <<Line(5, 1, NULL, 0, 1), Line(6, 1, NULL, 0, 1), Line(6, 2, NULL, 0, 1)>>
\* the batches of the second job: event 1, or events 2 and 1
TwoJobsNext ==
    \/ ReadNext(FirstFile[IF lineNumber < nLines THEN lineNumber + 1 ELSE 1])
    \/ PbUpdateReturns \/ SaveReturns \/ FbUpdateReturns \/ FbAddErrorReturns
    \/ \E n \in 1..MaxLines : DbApplyLine(n)
    \/ \E n \in 1..MaxLines : LineAddErrorReturns(n)
    \/ \E b \in {<<Event(1, NULL, 0, 1)>>, <<Event(2, NULL, 0, 1), Event(1, NULL, 0, 1)>>} :
          OtherBulk(b)
    \/ OtherSave
TwoJobsSpec == FileInit(Len(FirstFile)) /\ [][TwoJobsNext]_vars

\* both jobs have ended
BothDone == Quiet /\ out.op = "job2" /\ out.st = "done"
\* the ids of the records of the first job's batch that it did not persist
NotPersisted == {batch[i].id : i \in DOMAIN batch} \ persisted

\* C26: with two jobs running concurrently the counters and errors of a job
\* are written by its own task only and end equal to what that job committed
\* and the failures it met; an event id that occurs in the files of both jobs
\* is persisted exactly once and is recorded as an error by the other job
C26_Jobs ==
    /\ (out.op = "job2" /\ pc = "idle") => dbJob = NoRow
    /\ BothDone =>
         /\ dbJob.processed_lines = Cardinality(persisted)
         /\ dbJob.error_lines = Cardinality(badLines) + Cardinality(NotPersisted)
         /\ Range(dbJob.errors) =
               {LineMsg(n) : n \in badLines} \cup {EventMsg(i) : i \in NotPersisted}
         /\ \A i \in {batch[k].id : k \in DOMAIN batch}
                     \cap {out.arg[k].id : k \in DOMAIN out.arg} :
               /\ i \in RowIds(store)
               /\ (i \in persisted) # (i \in out.res[2])
               /\ i \in persisted => i \in Range(out.res[3])
               /\ i \in out.res[2] => EventMsg(i) \in Range(dbJob.errors)
====
